---- MODULE Spec2Model ----
(***************************************************************************)
(* homebridge-leak-alarm: the poll loop, the fetch with its 3-second       *)
(* window, the token scanner, the three-sample mean and the alert          *)
(* hysteresis of class LeakAlarm.                                          *)
(*                                                                         *)
(* Time is counted in whole seconds.  A string is a sequence of one-       *)
(* character strings.  A Number is an IEEE-754 double: the sum and the     *)
(* division of the three-sample mean round as JavaScript rounds them.      *)
(***************************************************************************)
EXTENDS Integers, Sequences, FiniteSets, TLC

\* ------------------------------------------------------------- constants
LEAK_NOT_DETECTED == 0
LEAK_DETECTED == 1
NO_FAULT == 0
GENERAL_FAULT == 1

\* setTimeout(..., 3000): the window allowed for the web request, in seconds
FetchWindow == 3

\* ---------------------------------------------------------------- bounds
\* the two configured poll intervals explored, in seconds (config.pollTimer)
ShortPollTimer == 1
LongPollTimer == 4
\* the configured alert threshold explored (config.alertThreshold)
Threshold == 5
\* how many times the host calls getServices
MaxStarts == 2
\* how many requests may stay unanswered after their window has closed
MaxLate == 1

\* ------------------------------------------------------ JavaScript numbers
\* A positive double is m * 2^e with the 53-bit significand m written as four
\* limbs of 15 bits, most significant first.  Negative numbers, infinities
\* and subnormals do not arise from the payloads explored.
Base == 32768

NaN == [m |-> <<>>, e |-> 0]
Zero == [m |-> <<0, 0, 0, 0>>, e |-> 0]

Zeros(n) == [k \in 1 .. n |-> 0]

\* a + b + carry for limb sequences of one length
RECURSIVE AddFrom(_, _, _)
AddFrom(a, b, carry) ==
    IF a = <<>> THEN <<carry>>
    ELSE LET n == Len(a)
             s == a[n] + b[n] + carry
         IN  Append(AddFrom(SubSeq(a, 1, n - 1), SubSeq(b, 1, n - 1), s \div Base), s % Base)

BigAdd(a, b) ==
    LET n == IF Len(a) > Len(b) THEN Len(a) ELSE Len(b)
    IN  AddFrom(Zeros(n - Len(a)) \o a, Zeros(n - Len(b)) \o b, 0)

\* a * k + carry for a factor k below Base
RECURSIVE MulFrom(_, _, _)
MulFrom(a, k, carry) ==
    IF a = <<>> THEN <<carry>>
    ELSE LET n == Len(a)
             p == a[n] * k + carry
         IN  Append(MulFrom(SubSeq(a, 1, n - 1), k, p \div Base), p % Base)

\* quotient and remainder of (rem, a) by a divisor q up to Base
RECURSIVE DivFrom(_, _, _)
DivFrom(a, q, rem) ==
    IF a = <<>> THEN [quot |-> <<>>, rem |-> rem]
    ELSE LET cur == rem * Base + a[1]
             rest == DivFrom(Tail(a), q, cur % q)
         IN  [quot |-> <<cur \div q>> \o rest.quot, rem |-> rest.rem]

ShiftLeft(a, d) == MulFrom(a, 2 ^ (d % 15), 0) \o Zeros(d \div 15)

ShiftRight(a, s) ==
    IF s \div 15 >= Len(a) THEN <<0>>
    ELSE DivFrom(SubSeq(a, 1, Len(a) - s \div 15), 2 ^ (s % 15), 0).quot

\* the number of bits of a: 0 for zero
BitLength(a) ==
    LET solid == {k \in DOMAIN a : a[k] # 0}
        top == CHOOSE k \in solid : \A j \in solid : k <= j
        width == CHOOSE n \in 1 .. 15 : 2 ^ (n - 1) <= a[top] /\ a[top] < 2 ^ n
    IN  IF solid = {} THEN 0 ELSE (Len(a) - top) * 15 + width

\* bit k of a, bit 0 the lowest
Bit(a, k) == (a[Len(a) - k \div 15] \div 2 ^ (k % 15)) % 2

\* the bits of a below bit k are all 0
LowZero(a, k) ==
    /\ \A j \in DOMAIN a : j > Len(a) - k \div 15 => a[j] = 0
    /\ a[Len(a) - k \div 15] % 2 ^ (k % 15) = 0

Last4(a) == SubSeq(Zeros(4) \o a, Len(a) + 1, Len(a) + 4)

\* the double nearest to n * 2^e, ties to even; sticky: the exact value lies
\* above n * 2^e by less than 2^e
Round(n, sticky, e) ==
    LET len == BitLength(n)
        s == len - 53
        q == IF s > 0 THEN ShiftRight(n, s) ELSE ShiftLeft(n, 0 - s)
        guard == s > 0 /\ Bit(n, s - 1) = 1
        rest == sticky \/ (s > 1 /\ ~LowZero(n, s - 1))
        up == guard /\ (rest \/ Bit(q, 0) = 1)
        r == IF up THEN BigAdd(q, <<1>>) ELSE q
        over == BitLength(r) = 54
    IN  IF len = 0 THEN Zero
        ELSE [m |-> Last4(IF over THEN ShiftRight(r, 1) ELSE r),
              e |-> e + s + (IF over THEN 1 ELSE 0)]

\* the double nearest to p / q
FromRatio(p, q) ==
    LET d == DivFrom(<<p \div Base, p % Base>> \o Zeros(5), q, 0)
    IN  Round(d.quot, d.rem # 0, 0 - 75)

\* x + y
Plus(x, y) ==
    IF x = NaN \/ y = NaN THEN NaN
    ELSE IF x = Zero THEN y
    ELSE IF y = Zero THEN x
    ELSE LET big == IF x.e >= y.e THEN x ELSE y
             small == IF x.e >= y.e THEN y ELSE x
         IN  Round(BigAdd(ShiftLeft(big.m, big.e - small.e), small.m), FALSE, small.e)

\* x / 3
Third(x) ==
    IF x = NaN \/ x = Zero THEN x
    ELSE LET d == DivFrom(x.m \o Zeros(4), 3, 0)
         IN  Round(d.quot, d.rem # 0, x.e - 60)

\* x > y
Greater(x, y) ==
    /\ x # NaN /\ y # NaN /\ x # Zero
    /\ \/ y = Zero
       \/ x.e > y.e
       \/ x.e = y.e /\ \E k \in 1 .. 4 : x.m[k] > y.m[k] /\ \A j \in 1 .. (k - 1) : x.m[j] = y.m[j]

\* ------------------------------------------------------- JavaScript values
\* the value of an array read past the end
Undefined == <<"undefined">>

Digits == <<"0", "1", "2", "3", "4", "5", "6", "7", "8", "9">>

IsDigit(ch) == \E d \in DOMAIN Digits : Digits[d] = ch

DigitVal(ch) == (CHOOSE d \in DOMAIN Digits : Digits[d] = ch) - 1

RECURSIVE DecimalValue(_)
DecimalValue(tok) ==
    IF tok = <<>> THEN 0
    ELSE 10 * DecimalValue(SubSeq(tok, 1, Len(tok) - 1)) + DigitVal(tok[Len(tok)])

\* unary plus on an array element: a decimal numeral gives the double nearest
\* to it, the empty string gives 0, undefined and any other text explored
\* (words, a numeral with its percent sign) give NaN
ToNumber(tok) ==
    LET dots == {k \in DOMAIN tok : tok[k] = "."}
        numeral == /\ Cardinality(dots) <= 1
                   /\ \A k \in DOMAIN tok \ dots : IsDigit(tok[k])
                   /\ dots # {} => Len(tok) > 1
        places == IF dots = {} THEN 0 ELSE Len(tok) - (CHOOSE k \in dots : TRUE)
    IN  IF numeral
        THEN FromRatio(DecimalValue(SelectSeq(tok, LAMBDA ch : ch # ".")), 10 ^ places)
        ELSE NaN

\* token.slice(0,-1): the token without its last character
SliceLast(tok) == SubSeq(tok, 1, Len(tok) - 1)

\* ( (+a) + (+b) + (+c) ) / 3 on the three coerced samples
Mean3(a, b, c) == Third(Plus(Plus(a, b), c))

\* humid > alertThreshold and humid < alertThreshold; false on NaN
Exceeds(humid, threshold) == Greater(humid, FromRatio(threshold, 1))

Below(humid, threshold) == Greater(FromRatio(threshold, 1), humid)

\* ------------------------------------------------------------ the payload
WhiteSpace == {" ", "\n", "\r"}

\* rawData.trim(): from the first to the last character that is no white space
Trim(s) ==
    LET solid == {k \in DOMAIN s : s[k] \notin WhiteSpace}
        first == CHOOSE k \in solid : \A m \in solid : k <= m
        last == CHOOSE k \in solid : \A m \in solid : m <= k
    IN  IF solid = {} THEN <<>> ELSE SubSeq(s, first, last)

\* rawData.replace(/\r?\n|\r/g, ","): a line feed behind a carriage return
\* goes with it into one comma
ReplaceBreaks(s) ==
    LET marked == [k \in DOMAIN s |->
                      IF s[k] = "\n" /\ k > 1 /\ s[k - 1] = "\r" THEN ""
                      ELSE IF s[k] \in {"\n", "\r"} THEN ","
                      ELSE s[k]]
    IN  SelectSeq(marked, LAMBDA ch : ch # "")

\* rawData.split(","): one token more than there are commas
Split(s) ==
    LET commas == {k \in DOMAIN s : s[k] = ","}
        \* the position of the n-th comma; 0 and Len(s) + 1 stand at the ends
        Comma(n) == IF n = 0 THEN 0
                    ELSE IF n > Cardinality(commas) THEN Len(s) + 1
                    ELSE CHOOSE k \in commas : Cardinality({m \in commas : m < k}) = n - 1
    IN  [n \in 1 .. (Cardinality(commas) + 1) |-> SubSeq(s, Comma(n - 1) + 1, Comma(n) - 1)]

Tokenize(rawData) == Split(ReplaceBreaks(Trim(rawData)))

\* sensorData[i], i counted from 0
At(sensorData, i) ==
    IF i + 1 \in DOMAIN sensorData THEN sensorData[i + 1] ELSE Undefined

SHT == <<"S", "H", "T">>
One == <<"1">>
Two == <<"2">>
Detected == <<"D", "e", "t", "e", "c", "t", "e", "d">>

\* the assignments of a "Detected" record to channel thisSensor
PublishReading(st, thisSensor, thisTemp, thisHumid) ==
    IF thisSensor = 1
    THEN [st EXCEPT !.sensor1State = NO_FAULT, !.sensor1Temp = thisTemp,
                    !.sensor1Humid = thisHumid]
    ELSE [st EXCEPT !.sensor2State = NO_FAULT, !.sensor2Temp = thisTemp,
                    !.sensor2Humid = thisHumid]

\* a fault assignment that does not look at thisSensor
PublishFaultOnBoth(st, thisSensor) ==
    [st EXCEPT !.sensor1State = GENERAL_FAULT, !.sensor2State = GENERAL_FAULT]

\* the assignment of a record whose status is not "Detected"
PublishFault(st, thisSensor) ==
    IF thisSensor = 1
    THEN [st EXCEPT !.sensor1State = GENERAL_FAULT]
    ELSE [st EXCEPT !.sensor2State = GENERAL_FAULT]

\* a scan that leaves the loop behind the first "Detected" record it publishes
RECURSIVE ScanToFirstReading(_, _, _, _)
ScanToFirstReading(sensorData, i, thisSensor, st) ==
    LET Continue(j, sensor, s) ==
            IF j + 1 < Len(sensorData)
            THEN ScanToFirstReading(sensorData, j + 1, sensor, s)
            ELSE [st |-> s, threw |-> FALSE]
        i1 == i + 1
        index == At(sensorData, i1)
        sensor == IF index = One THEN 1 ELSE IF index = Two THEN 2 ELSE thisSensor
        i2 == IF index = One \/ index = Two THEN i1 + 2 ELSE i1
        thisTemp == Mean3(ToNumber(At(sensorData, i2 + 1)),
                         ToNumber(At(sensorData, i2 + 2)),
                         ToNumber(At(sensorData, i2 + 3)))
        h1 == At(sensorData, i2 + 4)
        h2 == At(sensorData, i2 + 5)
        h3 == At(sensorData, i2 + 6)
        thisHumid == Mean3(ToNumber(SliceLast(h1)), ToNumber(SliceLast(h2)),
                          ToNumber(SliceLast(h3)))
    IN  IF At(sensorData, i) # SHT THEN Continue(i1, thisSensor, st)
        ELSE IF sensor = 0 THEN Continue(i2, sensor, st)
        ELSE IF At(sensorData, i2) # Detected
             THEN Continue(i2, sensor, PublishFault(st, sensor))
        ELSE IF h1 = Undefined \/ h2 = Undefined \/ h3 = Undefined
             THEN [st |-> st, threw |-> TRUE]
        ELSE [st |-> PublishReading(st, sensor, thisTemp, thisHumid), threw |-> FALSE]

\* the do ... while (++i < sensorData.length) scan, entered at index i with
\* thisSensor as left by the records before.  threw: a humidity token was
\* undefined, so .slice raised a TypeError and the callback was left there.
RECURSIVE Scan(_, _, _, _)
Scan(sensorData, i, thisSensor, st) ==
    LET Continue(j, sensor, s) ==
            IF j + 1 < Len(sensorData)
            THEN Scan(sensorData, j + 1, sensor, s)
            ELSE [st |-> s, threw |-> FALSE]
        i1 == i + 1
        index == At(sensorData, i1)
        sensor == IF index = One THEN 1 ELSE IF index = Two THEN 2 ELSE thisSensor
        i2 == IF index = One \/ index = Two THEN i1 + 2 ELSE i1
        thisTemp == Mean3(ToNumber(At(sensorData, i2 + 1)),
                         ToNumber(At(sensorData, i2 + 2)),
                         ToNumber(At(sensorData, i2 + 3)))
        h1 == At(sensorData, i2 + 4)
        h2 == At(sensorData, i2 + 5)
        h3 == At(sensorData, i2 + 6)
        thisHumid == Mean3(ToNumber(SliceLast(h1)), ToNumber(SliceLast(h2)),
                          ToNumber(SliceLast(h3)))
    IN  IF At(sensorData, i) # SHT THEN Continue(i1, thisSensor, st)
        ELSE IF sensor = 0 THEN Continue(i2, sensor, st)
        ELSE IF At(sensorData, i2) # Detected
             THEN Continue(i2, sensor, PublishFault(st, sensor))
        ELSE IF h1 = Undefined \/ h2 = Undefined \/ h3 = Undefined
             THEN [st |-> st, threw |-> TRUE]
        ELSE Continue(i2 + 6, sensor, PublishReading(st, sensor, thisTemp, thisHumid))

\* a rule that leaves the humidity of a faulted channel out of the comparison
AlertRuleSkippingFaulted(st, threshold) ==
    LET over1 == st.sensor1State = NO_FAULT /\ Exceeds(st.sensor1Humid, threshold)
        over2 == st.sensor2State = NO_FAULT /\ Exceeds(st.sensor2Humid, threshold)
        under1 == st.sensor1State # NO_FAULT \/ Below(st.sensor1Humid, threshold)
        under2 == st.sensor2State # NO_FAULT \/ Below(st.sensor2Humid, threshold)
    IN  IF st.AlertState = LEAK_NOT_DETECTED
        THEN IF over1 \/ over2 THEN [st EXCEPT !.AlertState = LEAK_DETECTED] ELSE st
        ELSE IF under1 /\ under2 THEN [st EXCEPT !.AlertState = LEAK_NOT_DETECTED] ELSE st

\* a rule that clears the alert as soon as one humidity is under the threshold
AlertRuleClearedByOne(st, threshold) ==
    IF st.AlertState = LEAK_NOT_DETECTED
    THEN IF Exceeds(st.sensor1Humid, threshold) \/ Exceeds(st.sensor2Humid, threshold)
         THEN [st EXCEPT !.AlertState = LEAK_DETECTED]
         ELSE st
    ELSE IF Below(st.sensor1Humid, threshold) \/ Below(st.sensor2Humid, threshold)
         THEN [st EXCEPT !.AlertState = LEAK_NOT_DETECTED]
         ELSE st

\* a rule that keeps the alert only while both humidities exceed the threshold
AlertRuleKeptByBoth(st, threshold) ==
    IF st.AlertState = LEAK_NOT_DETECTED
    THEN IF Exceeds(st.sensor1Humid, threshold) \/ Exceeds(st.sensor2Humid, threshold)
         THEN [st EXCEPT !.AlertState = LEAK_DETECTED]
         ELSE st
    ELSE IF Exceeds(st.sensor1Humid, threshold) /\ Exceeds(st.sensor2Humid, threshold)
         THEN st
         ELSE [st EXCEPT !.AlertState = LEAK_NOT_DETECTED]

\* the hysteresis on accessory.state.AlertState
AlertRule(st, threshold) ==
    IF st.AlertState = LEAK_NOT_DETECTED
    THEN IF Exceeds(st.sensor1Humid, threshold) \/ Exceeds(st.sensor2Humid, threshold)
         THEN [st EXCEPT !.AlertState = LEAK_DETECTED]
         ELSE st
    ELSE IF Below(st.sensor1Humid, threshold) /\ Below(st.sensor2Humid, threshold)
         THEN [st EXCEPT !.AlertState = LEAK_NOT_DETECTED]
         ELSE st


\* ----------------------------------------------------- what the device sends
RECURSIVE Join(_)
Join(tokens) ==
    IF Len(tokens) = 0 THEN <<>>
    ELSE IF Len(tokens) = 1 THEN tokens[1]
    ELSE tokens[1] \o <<",">> \o Join(Tail(tokens))

Pct(d) == <<d, "%">>

\* one report line of the device for channel index, three equal temperature
\* readings and the three humidity readings given
Record(index, status, h1, h2, h3) ==
    Join(<<SHT, index, <<"A">>, status, <<"2">>, <<"2">>, <<"2">>, h1, h2, h3>>)

Wet(index) == Record(index, Detected, Pct("9"), Pct("9"), Pct("9"))

Dry(index) == Record(index, Detected, Pct("1"), Pct("1"), Pct("1"))

\* a "Detected" line cut after its second humidity reading
Truncated(index) ==
    Join(<<SHT, index, <<"A">>, Detected, <<"2">>, <<"2">>, <<"2">>, Pct("9"), Pct("9")>>)

\* a "Detected" line whose humidity readings, 12 each, come without the % sign
Unsigned(index) == Record(index, Detected, <<"1", "2">>, <<"1", "2">>, <<"1", "2">>)

\* a "Detected" line that lacks one temperature reading
MissingField(index) ==
    Join(<<SHT, index, <<"A">>, Detected, <<"2">>, <<"2">>, Pct("9"), Pct("9"), Pct("9")>>)

\* a numeral with one decimal place
Dec(a, b) == <<a, ".", b>>

\* one report line with its three temperature and three humidity numerals
Report(index, status, t, h) ==
    Join(<<SHT, index, <<"A">>, status, t[1], t[2], t[3],
           h[1] \o <<"%">>, h[2] \o <<"%">>, h[3] \o <<"%">>>>)

NotDetected == <<"N", "o", "t", " ", "D", "e", "t", "e", "c", "t", "e", "d">>

Noughts == <<<<"0">>, <<"0">>, <<"0">>>>
Ones == <<<<"1">>, <<"1">>, <<"1">>>>
Twos == <<<<"2">>, <<"2">>, <<"2">>>>
Threes == <<<<"3">>, <<"3">>, <<"3">>>>
Sevens == <<<<"7">>, <<"7">>, <<"7">>>>
Nines == <<<<"9">>, <<"9">>, <<"9">>>>
\* the readings 1.3, 3.9, 9.8, whose mean is 5, in two orders
Rising == <<Dec("1", "3"), Dec("3", "9"), Dec("9", "8")>>
Falling == <<Dec("9", "8"), Dec("3", "9"), Dec("1", "3")>>

\* a report line whose channel index is neither "1" nor "2"
Stray == Report(<<"3">>, Detected, Twos, Ones)

\* a "Detected" line of channel 1 whose second temperature is no numeral
Garbled == Report(One, Detected, <<<<"2">>, <<"x">>, <<"2">>>>, Nines)

\* a second "Detected" line of channel 1, with readings of its own
Later == Report(One, Detected, Threes, Ones)

\* a report of both channels, each "Detected", v the four triples of numerals
Payload(v) ==
    Report(One, Detected, v.t1, v.h1) \o <<"\n">> \o Report(Two, Detected, v.t2, v.h2)

\* the readings of the reports explored in which both channels are "Detected"
ValidPayloads ==
    << [t1 |-> Twos, h1 |-> Nines, t2 |-> Twos, h2 |-> Ones],
       [t1 |-> Rising, h1 |-> Rising, t2 |-> Falling, h2 |-> Falling] >>

Bodies ==
    << Wet(One) \o <<"\n">> \o Dry(Two),
       Dry(One) \o <<"\n">> \o Dry(Two) \o <<"\n">>,
       Dry(One) \o <<"\r", "\n">> \o Wet(Two),
       Wet(One) \o <<"\n">> \o Truncated(Two),
       MissingField(One) \o <<"\n">> \o Dry(Two),
       Record(One, Detected, Pct("5"), Pct("5"), Pct("5")) \o <<"\n">> \o Dry(Two),
       Dry(One) \o <<"\n">> \o Record(Two, Detected, Pct("1"), Pct("5"), Pct("9")),
       <<>>,
       Payload(ValidPayloads[2]),
       Dry(One) \o <<"\n">> \o Record(Two, Detected, Pct("1"), Pct("9"), Pct("9")),
       Dry(One) \o <<"\n">> \o Report(Two, NotDetected, Noughts, Noughts),
       MissingField(One) \o <<"\n">> \o Report(Two, NotDetected, Noughts, Noughts),
       Dry(One) \o <<"\n">> \o Stray,
       Report(One, Detected, Threes, Sevens),
       Garbled \o <<"\n">> \o Dry(Two),
       Wet(One) \o <<"\n">> \o Later,
       Unsigned(One) \o <<"\n">> \o Dry(Two) >>

\* the bodies sent by the device of specification Spec
HostileBodies == {1, 2}

\* the device writes its report line by line: a chunk of the body ends behind
\* a line break or at the end of the body
CutPoints(body) ==
    {k \in 1 .. Len(body) : body[k] = "\n"} \cup {Len(body)}

\* ------------------------------------------------------------------ state
VARIABLES
    IpAddress,      \* this.IpAddress: the host of every request, or undefined
    state,          \* accessory.state
    hk,             \* the characteristic values last handed to HomeKit
    pollTimer,      \* this.pollTimer, seconds
    alertThreshold, \* this.alertThreshold
    stateTimer,     \* accessory.stateTimer: 0, or the id of the timer it holds
    timers,         \* the pending timers of the event loop, in arming order
    cyc,            \* per pollSensorState call in its window: request and rawData
    late,           \* requests still unanswered after their window has closed
    starts,         \* calls of getServices so far
    uncaught        \* an exception left a timer callback: the process is gone

vars == <<IpAddress, state, hk, IpAddress, pollTimer, alertThreshold, stateTimer, timers, cyc, late, starts, uncaught>>

\* one slot per pollSensorState call whose 3-second timer is pending
Slots == 1 .. MaxStarts

\* a request is named by its slot, or by 0 once its window has closed: such a
\* request can change nothing but deviceState, and they all look alike
Requests == Slots \cup {0}

Free == [req |-> "free", body |-> 0, got |-> 0]

\* rawData of the call in slot c: what its 'data' events have appended
RawData(c) == IF cyc[c].body = 0 THEN <<>> ELSE SubSeq(Bodies[cyc[c].body], 1, cyc[c].got)

\* the 3-second timer of slot c has not fired yet
InWindow(c) == \E k \in DOMAIN timers : timers[k].kind = "window" /\ timers[k].cyc = c

\* the request of slot c may still call back
Outstanding(c) == cyc[c].req \in {"pending", "open"}

\* request r has not called back yet
Pending(r) == IF r = 0 THEN late > 0 ELSE cyc[r].req = "pending"

Duration(t) == IF t.kind = "window" THEN FetchWindow ELSE pollTimer

\* timers of one duration fire in arming order; the order between two timers
\* of different durations that are due in the same second is open
CanFire(k) ==
    /\ timers[k].rem = 0
    /\ \A j \in 1 .. (k - 1) :
          ~(timers[j].rem = 0 /\ Duration(timers[j]) = Duration(timers[k]))

Remove(seq, k) == SubSeq(seq, 1, k - 1) \o SubSeq(seq, k + 1, Len(seq))

\* a clearTimeout handed a handle that names no timer
ClearTimeoutOfNothing(ts, handle) == ts

\* clearTimeout(handle)
ClearTimeout(ts, handle) ==
    SelectSeq(ts, LAMBDA t : ~(t.kind = "poll" /\ t.id = handle))

FreshId(ts) ==
    CHOOSE n \in 1 .. (Len(ts) + 1) :
        /\ \A k \in DOMAIN ts : ts[k].id # n
        /\ \A m \in 1 .. (n - 1) : \E k \in DOMAIN ts : ts[k].id = m

\* a pollState() that arms its timer and leaves the pending one alone
PollStateKeepingPending(ts, handle) ==
    LET id == FreshId(ts)
    IN  [timers |-> Append(ts, [kind |-> "poll", id |-> id, rem |-> pollTimer, cyc |-> 0]),
         stateTimer |-> id]

\* pollState(): the timers and the handle it leaves
PollState(ts, handle) ==
    LET cleared == IF handle # 0 THEN ClearTimeout(ts, handle) ELSE ts
        id == FreshId(cleared)
    IN  [timers |-> Append(cleared, [kind |-> "poll", id |-> id, rem |-> pollTimer, cyc |-> 0]),
         stateTimer |-> id]

\* pushes that hand the humidity of channel 2 to the service of channel 1
PushAllCrossed(st) ==
    [LeakDetected |-> st.AlertState, StatusFault |-> st.deviceState,
     Temp1 |-> st.sensor1Temp, Temp1Fault |-> st.sensor1State,
     Humid1 |-> st.sensor2Humid, Humid1Fault |-> st.sensor1State,
     Temp2 |-> st.sensor2Temp, Temp2Fault |-> st.sensor2State,
     Humid2 |-> st.sensor2Humid, Humid2Fault |-> st.sensor2State]

\* the updateCharacteristic calls of a processed cycle
PushAll(st) ==
    [LeakDetected |-> st.AlertState, StatusFault |-> st.deviceState,
     Temp1 |-> st.sensor1Temp, Temp1Fault |-> st.sensor1State,
     Humid1 |-> st.sensor1Humid, Humid1Fault |-> st.sensor1State,
     Temp2 |-> st.sensor2Temp, Temp2Fault |-> st.sensor2State,
     Humid2 |-> st.sensor2Humid, Humid2Fault |-> st.sensor2State]

\* the 'get' handlers: each answers with a field of the accessory state st
getState(st) == st.AlertState
getFaultState(st) == st.deviceState
getTemp1(st) == st.sensor1Temp
getTemp1FaultState(st) == st.sensor1State
getHumid1(st) == st.sensor1Humid
getHumid1FaultState(st) == st.sensor1State
getTemp2(st) == st.sensor2Temp
getTemp2FaultState(st) == st.sensor2State
getHumid2(st) == st.sensor2Humid
getHumid2FaultState(st) == st.sensor2State

\* what a read of each characteristic returns: the handler the constructor
\* has bound to it with .on('get', ...), applied to the accessory state st
Handlers(st) ==
    [LeakDetected |-> getState(st), StatusFault |-> getFaultState(st),
     Temp1 |-> getTemp1(st), Temp1Fault |-> getTemp1FaultState(st),
     Humid1 |-> getHumid1(st), Humid1Fault |-> getHumid2FaultState(st),
     Temp2 |-> getTemp2(st), Temp2Fault |-> getTemp2FaultState(st),
     Humid2 |-> getHumid2(st), Humid2Fault |-> getHumid2FaultState(st)]

\* the address of the device in the configuration
Address == <<"192.168.1.20">>

\* the accessory as the constructor leaves it when config.IpAddress is address:
\* the constructor copies the field and looks at it no further
Constructed(address) ==
    /\ IpAddress = address
    /\ state = [AlertState |-> LEAK_NOT_DETECTED, deviceState |-> NO_FAULT,
                sensor1State |-> NO_FAULT, sensor1Temp |-> Zero, sensor1Humid |-> Zero,
                sensor2State |-> NO_FAULT, sensor2Temp |-> Zero, sensor2Humid |-> Zero]
    /\ hk = [LeakDetected |-> 0, StatusFault |-> NO_FAULT,
             Temp1 |-> Zero, Temp1Fault |-> NO_FAULT, Humid1 |-> Zero, Humid1Fault |-> NO_FAULT,
             Temp2 |-> Zero, Temp2Fault |-> NO_FAULT, Humid2 |-> Zero, Humid2Fault |-> NO_FAULT]
    /\ pollTimer \in {ShortPollTimer, LongPollTimer}
    /\ alertThreshold = Threshold
    /\ stateTimer = 0
    /\ timers = <<>>
    /\ cyc = [c \in Slots |-> Free]
    /\ late = 0
    /\ starts = 0
    /\ uncaught = FALSE

Init == Constructed(Address)

\* getServices(): the probe request only logs; pollState() arms the loop
getServices ==
    /\ ~uncaught
    /\ starts < MaxStarts
    /\ starts' = starts + 1
    /\ LET p == PollState(timers, stateTimer)
       IN  timers' = p.timers /\ stateTimer' = p.stateTimer
    /\ UNCHANGED <<state, hk, IpAddress, pollTimer, alertThreshold, cyc, late, uncaught>>

\* one second passes; a timer that is due fires before the next second
Tick ==
    /\ ~uncaught
    /\ timers # <<>>
    /\ \A k \in DOMAIN timers : timers[k].rem > 0
    /\ timers' = [k \in DOMAIN timers |-> [timers[k] EXCEPT !.rem = @ - 1]]
    /\ UNCHANGED <<state, hk, IpAddress, pollTimer, alertThreshold, stateTimer, cyc, late, starts, uncaught>>

\* the poll timer fires: pollSensorState() issues the request and arms the
\* 3-second timer
pollSensorState(k) ==
    /\ ~uncaught
    /\ timers[k].kind = "poll"
    /\ CanFire(k)
    /\ \E c \in Slots :
          /\ cyc[c] = Free
          /\ \A d \in 1 .. (c - 1) : cyc[d] # Free
          /\ cyc' = [cyc EXCEPT ![c] = [req |-> "pending", body |-> 0, got |-> 0]]
          /\ timers' = Append(Remove(timers, k),
                              [kind |-> "window", id |-> 0, rem |-> FetchWindow, cyc |-> c])
    /\ UNCHANGED <<state, hk, IpAddress, pollTimer, alertThreshold, stateTimer, late, starts, uncaught>>

\* request r has called back and left slot in its place
Answer(r, slot) ==
    IF r = 0
    THEN late' = late - 1 /\ UNCHANGED cyc
    ELSE cyc' = [cyc EXCEPT ![r] = slot] /\ UNCHANGED late

\* the 'error' event of the request
OnError(r) ==
    /\ ~uncaught
    /\ Pending(r)
    /\ state' = [state EXCEPT !.deviceState = GENERAL_FAULT]
    /\ Answer(r, [req |-> "failed", body |-> 0, got |-> 0])
    /\ UNCHANGED <<hk, IpAddress, pollTimer, alertThreshold, stateTimer, timers, starts, uncaught>>

\* the response callback, status code other than 200
OnResponseBad(r) ==
    /\ ~uncaught
    /\ Pending(r)
    /\ state' = [state EXCEPT !.deviceState = GENERAL_FAULT]
    /\ Answer(r, [req |-> "failed", body |-> 0, got |-> 0])
    /\ UNCHANGED <<hk, IpAddress, pollTimer, alertThreshold, stateTimer, timers, starts, uncaught>>

\* the response callback, status code 200, the device sending body b
OnResponse200(r, b) ==
    /\ ~uncaught
    /\ Pending(r)
    /\ state' = [state EXCEPT !.deviceState = NO_FAULT]
    /\ Answer(r, [req |-> "open", body |-> b, got |-> 0])
    /\ UNCHANGED <<hk, IpAddress, pollTimer, alertThreshold, stateTimer, timers, starts, uncaught>>

\* where the next chunk of the body of slot c may end
ChunkEnds(c) == IF cyc[c].req = "open" THEN CutPoints(Bodies[cyc[c].body]) ELSE {}

\* a 'data' event: rawData += chunk
OnData(c, n) ==
    /\ ~uncaught
    /\ cyc[c].req = "open"
    /\ n > cyc[c].got
    /\ cyc' = [cyc EXCEPT ![c].got = n]
    /\ UNCHANGED <<state, hk, IpAddress, pollTimer, alertThreshold, stateTimer, timers, late, starts, uncaught>>

\* the 'end' event: it only logs
OnEnd(c) ==
    /\ ~uncaught
    /\ cyc[c].req = "open"
    /\ cyc[c].got = Len(Bodies[cyc[c].body])
    /\ cyc' = [cyc EXCEPT ![c].req = "ended"]
    /\ UNCHANGED <<state, hk, IpAddress, pollTimer, alertThreshold, stateTimer, timers, late, starts, uncaught>>

\* the 3-second timer of pollSensorState fires.  A request that has not
\* called back by then stays outstanding (keep) or never calls back at all.
OnWindow(k, keep) ==
    /\ ~uncaught
    /\ timers[k].kind = "window"
    /\ CanFire(k)
    /\ LET c == timers[k].cyc
           rest == Remove(timers, k)
           p == PollState(rest, stateTimer)
       IN  /\ keep => (cyc[c].req = "pending" /\ late < MaxLate)
           /\ late' = IF keep THEN late + 1 ELSE late
           /\ cyc' = [cyc EXCEPT ![c] = Free]
           /\ IF state.deviceState = NO_FAULT
              THEN \E scanned \in {Scan(Tokenize(RawData(c)), 0, 0, state)} :
                      IF scanned.threw
                      THEN /\ state' = scanned.st
                           /\ uncaught' = TRUE
                           /\ timers' = rest
                           /\ UNCHANGED <<hk, stateTimer>>
                      ELSE /\ state' = AlertRule(scanned.st, alertThreshold)
                           /\ hk' = PushAll(state')
                           /\ timers' = p.timers
                           /\ stateTimer' = p.stateTimer
                           /\ UNCHANGED uncaught
              ELSE /\ hk' = [hk EXCEPT !.StatusFault = state.deviceState]
                   /\ timers' = p.timers
                   /\ stateTimer' = p.stateTimer
                   /\ UNCHANGED <<state, uncaught>>
    /\ UNCHANGED <<IpAddress, pollTimer, alertThreshold, starts>>

Next ==
    \/ getServices
    \/ Tick
    \/ \E k \in DOMAIN timers : pollSensorState(k)
    \/ \E r \in Requests : OnError(r)
    \/ \E r \in Requests : OnResponseBad(r)
    \/ \E r \in Requests : \E b \in HostileBodies : OnResponse200(r, b)
    \/ \E c \in Slots : \E n \in ChunkEnds(c) : OnData(c, n)
    \/ \E c \in Slots : OnEnd(c)
    \/ \E k \in DOMAIN timers : \E keep \in BOOLEAN : OnWindow(k, keep)

Spec == Init /\ [][Next]_vars

\* ------------------------------------------- the loop with a prompt device
\* The host calls getServices once and the device answers every request with
\* status 200 and a whole body before a second has passed.
PromptInit == Init /\ pollTimer = ShortPollTimer

Answered == \A c \in Slots : InWindow(c) => cyc[c].req = "ended"

PromptNext ==
    \/ starts = 0 /\ getServices
    \/ Answered /\ Tick
    \/ \E k \in DOMAIN timers : pollSensorState(k)
    \/ \E c \in Slots : \E b \in DOMAIN Bodies : OnResponse200(c, b)
    \/ \E c \in Slots : cyc[c].req = "open" /\ OnData(c, Len(Bodies[cyc[c].body]))
    \/ \E c \in Slots : OnEnd(c)
    \/ \E k \in DOMAIN timers : OnWindow(k, FALSE)

PromptSpec == PromptInit /\ [][PromptNext]_vars

\* ------------------------------------- the loop without a configured address
\* config.IpAddress is missing: every request goes to 'http://undefined/', and
\* whatever answers to that name, or nothing, decides what comes back.
BareInit == Constructed(Undefined) /\ pollTimer = LongPollTimer

BareSpec == BareInit /\ [][Next]_vars

\* ---------------------------------------------------------------- claims
\* the cycles in flight: fetch issued, 3-second processing step not yet run
InFlight == {c \in Slots : InWindow(c)}

\* this step is the 3-second processing step of slot c
WindowStep(c) == InWindow(c) /\ ~InWindow(c)'

\* this step leaves the four numeric channel fields as they were
ReadingsKept ==
    /\ state'.sensor1Temp = state.sensor1Temp
    /\ state'.sensor1Humid = state.sensor1Humid
    /\ state'.sensor2Temp = state.sensor2Temp
    /\ state'.sensor2Humid = state.sensor2Humid

\* C1: starting the poll loop twice never produces two poll cycles in flight
\* at once, whatever the poll interval.
C1_OneCycleInFlight == Cardinality(InFlight) <= 1

\* C2: a new cycle's fetch is never issued while the previous cycle's HTTP
\* request is still outstanding (stated for the loop started once, where no
\* second start is there to overlap two cycles).
C2_NoFetchOverOutstandingRequest ==
    starts <= 1 => Cardinality({c \in Slots : Outstanding(c)}) + late <= 1

\* C3: once started, polling never stops: after every cycle a timer of the
\* loop is pending, the poll timer or the 3-second timer of a running cycle.
C3_PollingNeverStops == starts > 0 => timers # <<>>

\* C4: for every payload received with status 200 the parse/aggregate/debounce
\* step finishes without raising an exception.
C4_NoException == ~uncaught

\* C5: in every cycle that processes a payload, with h1, h2 the humidities
\* published by it: from LeakNotDetected the alert is raised exactly when
\* h1 > T or h2 > T, from LeakDetected it is cleared exactly when h1 < T and
\* h2 < T.
C5_Hysteresis ==
    [][\A c \in Slots :
          (WindowStep(c) /\ state.deviceState = NO_FAULT) =>
             LET h1 == state'.sensor1Humid
                 h2 == state'.sensor2Humid
                 limit == FromRatio(alertThreshold, 1)
                 over == Greater(h1, limit) \/ Greater(h2, limit)
                 under == Greater(limit, h1) /\ Greater(limit, h2)
             IN  /\ state.AlertState = LEAK_NOT_DETECTED =>
                       (state'.AlertState = LEAK_DETECTED <=> over)
                 /\ state.AlertState = LEAK_DETECTED =>
                       (state'.AlertState = LEAK_NOT_DETECTED <=> under)]_vars

\* C6: a cycle whose fetch failed with a connection error or a non-success
\* status leaves the four numeric channel fields as they were and ends with
\* deviceState = GENERAL_FAULT (stated for the loop started once).
C6_FailedFetchEndsInFault ==
    [][\A c \in Slots :
          (WindowStep(c) /\ cyc[c].req = "failed" /\ starts <= 1) =>
             (ReadingsKept /\ state'.deviceState = GENERAL_FAULT)]_vars

\* C7: a cycle whose request has neither answered nor failed when the
\* 3 seconds are over ends with deviceState = GENERAL_FAULT.
C7_TimeoutEndsInFault ==
    [][\A c \in Slots :
          (WindowStep(c) /\ cyc[c].req = "pending") =>
             state'.deviceState = GENERAL_FAULT]_vars

\* the body of slot c has arrived only in part
PartialBody(c) == cyc[c].req = "open" /\ cyc[c].got < Len(Bodies[cyc[c].body])

\* C8: status 200 with the body incomplete when the 3 seconds are over is a
\* transport failure: no channel field changes and deviceState = GENERAL_FAULT.
C8_PartialBodyIsFailure ==
    [][\A c \in Slots :
          (WindowStep(c) /\ PartialBody(c)) =>
             (ReadingsKept /\ state'.deviceState = GENERAL_FAULT)]_vars

\* C9: a cycle that ends in transport failure (request failed, unanswered, or
\* body incomplete) never changes AlertState from LEAK_NOT_DETECTED to
\* LEAK_DETECTED.
C9_FailureNeverRaisesAlert ==
    [][\A c \in Slots :
          (WindowStep(c) /\ (cyc[c].req \in {"failed", "pending"} \/ PartialBody(c))) =>
             ~(state.AlertState = LEAK_NOT_DETECTED /\ state'.AlertState = LEAK_DETECTED)]_vars

\* C10: a record with a missing field before a well-formed "Detected" record:
\* the later record's channel is published with the mean of its own three
\* temperatures (2, 2, 2) and humidities (1, 1, 1) and health NO_FAULT.
C10_LaterRecordParsed ==
    [][\A c \in Slots :
          (/\ WindowStep(c)
           /\ state.deviceState = NO_FAULT
           /\ RawData(c) = MissingField(One) \o <<"\n">> \o Dry(Two)) =>
             (/\ state'.sensor2State = NO_FAULT
              /\ state'.sensor2Temp = FromRatio(2, 1)
              /\ state'.sensor2Humid = FromRatio(1, 1))]_vars

\* a numeral of at most one decimal place, in tenths
Tenths(tok) ==
    IF \E k \in DOMAIN tok : tok[k] = "."
    THEN DecimalValue(SelectSeq(tok, LAMBDA ch : ch # "."))
    ELSE 10 * DecimalValue(tok)

\* the mean of three numerals as a Number: the double nearest to it
MeanOf(samples) ==
    FromRatio(Tenths(samples[1]) + Tenths(samples[2]) + Tenths(samples[3]), 30)

Permutations3 == {p \in [1 .. 3 -> 1 .. 3] : \A i, j \in 1 .. 3 : p[i] = p[j] => i = j}

\* the readings v with the three samples of every triple reordered by p
Permuted(v, p) ==
    [t1 |-> [k \in 1 .. 3 |-> v.t1[p[k]]], h1 |-> [k \in 1 .. 3 |-> v.h1[p[k]]],
     t2 |-> [k \in 1 .. 3 |-> v.t2[p[k]]], h2 |-> [k \in 1 .. 3 |-> v.h2[p[k]]]]

\* the four numeric channel fields of a state record
Readings(st) == <<st.sensor1Temp, st.sensor1Humid, st.sensor2Temp, st.sensor2Humid>>

\* C11: the processing step of a report in which both channels are "Detected"
\* publishes for each channel the mean of its three temperature samples and
\* the mean of its three humidity samples, and the same report with the
\* samples of each triple in any other order publishes the same four values.
C11_MeanInAnyOrder ==
    [][\A c \in Slots : \A n \in DOMAIN ValidPayloads :
          (/\ WindowStep(c)
           /\ state.deviceState = NO_FAULT
           /\ RawData(c) = Payload(ValidPayloads[n])) =>
             LET v == ValidPayloads[n]
             IN  /\ Readings(state') = <<MeanOf(v.t1), MeanOf(v.h1), MeanOf(v.t2), MeanOf(v.h2)>>
                 /\ \A p \in Permutations3 :
                        Readings(Scan(Tokenize(Payload(Permuted(v, p))), 0, 0, state).st)
                           = Readings(state')]_vars

\* the whole body of slot c has arrived with status 200
Fetched(c) == cyc[c].req = "ended"

\* raw begins with the report line given
FirstLine(raw, line) == Len(raw) >= Len(line) /\ SubSeq(raw, 1, Len(line)) = line

\* C12: the alert rule of a cycle runs after the scan of that cycle: the
\* processing step of a fetched report whose first line gives channel 1 the
\* humidities 9%, 9%, 9% (mean 9, over the threshold) ends with
\* AlertState = LEAK_DETECTED.
C12_AlertInSameCycle ==
    [][\A c \in Slots :
          (WindowStep(c) /\ Fetched(c) /\ FirstLine(RawData(c), Wet(One))
             /\ 9 > alertThreshold) =>
             state'.AlertState = LEAK_DETECTED]_vars

\* tok is a decimal numeral followed by a percent sign
IsPercentage(tok) ==
    /\ Len(tok) > 1
    /\ tok[Len(tok)] = "%"
    /\ ToNumber(SliceLast(tok)) # NaN

\* raw holds a report line of channel index, laid out as the README lays it
\* out, whose three humidity readings each exceed threshold
AllSamplesOver(raw, index, threshold) ==
    LET tokens == Tokenize(raw)
    IN  \E i \in DOMAIN tokens :
           /\ i + 9 <= Len(tokens)
           /\ tokens[i] = SHT /\ tokens[i + 1] = index
           /\ \A j \in 7 .. 9 :
                 /\ IsPercentage(tokens[i + j])
                 /\ Tenths(SliceLast(tokens[i + j])) > 10 * threshold

\* C13: a processing step takes AlertState from LEAK_NOT_DETECTED to
\* LEAK_DETECTED only if the report of that cycle holds, for channel 1 or for
\* channel 2, three humidity readings that each exceed the threshold.
C13_AllThreeReadingsOver ==
    [][\A c \in Slots :
          (/\ WindowStep(c)
           /\ state.AlertState = LEAK_NOT_DETECTED
           /\ state'.AlertState = LEAK_DETECTED) =>
             \/ AllSamplesOver(RawData(c), One, alertThreshold)
             \/ AllSamplesOver(RawData(c), Two, alertThreshold)]_vars

\* raw ends with the report line given
LastLine(raw, line) ==
    Len(raw) >= Len(line) /\ SubSeq(raw, Len(raw) - Len(line) + 1, Len(raw)) = line

\* C14: the processing step of a fetched report whose line for channel 2 has
\* the status "Not Detected" ends with sensor2State = GENERAL_FAULT and leaves
\* the temperature and the humidity of channel 2 as they were.
C14_NotDetectedIsFault ==
    [][\A c \in Slots :
          (/\ WindowStep(c) /\ Fetched(c)
           /\ LastLine(RawData(c), Report(Two, NotDetected, Noughts, Noughts))) =>
             /\ state'.sensor2State = GENERAL_FAULT
             /\ state'.sensor2Temp = state.sensor2Temp
             /\ state'.sensor2Humid = state.sensor2Humid]_vars

\* the health, temperature and humidity of both channels in a state record
Channels(st) ==
    <<st.sensor1State, st.sensor1Temp, st.sensor1Humid,
      st.sensor2State, st.sensor2Temp, st.sensor2Humid>>

\* raw without its last line
Before(raw, line) == SubSeq(raw, 1, Len(raw) - Len(line) - 1)

\* C15: a line "SHT,3,..." behind the lines of a fetched report changes no
\* channel: the processing step leaves both channels as the report without
\* that line leaves them.
C15_UnknownIndexSkipped ==
    [][\A c \in Slots :
          (/\ WindowStep(c) /\ Fetched(c)
           /\ LastLine(RawData(c), <<"\n">> \o Stray)) =>
             Channels(state')
                = Channels(Scan(Tokenize(Before(RawData(c), Stray)), 0, 0, state).st)]_vars

\* raw holds no marker "SHT" followed by the channel index given
NoRecord(raw, index) ==
    LET tokens == Tokenize(raw)
    IN  \A i \in DOMAIN tokens :
           ~(tokens[i] = SHT /\ i + 1 <= Len(tokens) /\ tokens[i + 1] = index)

\* C16: the processing step of a report that holds no record for a channel
\* leaves the temperature, the humidity and the health of that channel as
\* they were, whatever else the report holds.
C16_AbsentChannelKept ==
    [][\A c \in Slots :
          /\ (WindowStep(c) /\ NoRecord(RawData(c), One)) =>
                /\ state'.sensor1State = state.sensor1State
                /\ state'.sensor1Temp = state.sensor1Temp
                /\ state'.sensor1Humid = state.sensor1Humid
          /\ (WindowStep(c) /\ NoRecord(RawData(c), Two)) =>
                /\ state'.sensor2State = state.sensor2State
                /\ state'.sensor2Temp = state.sensor2Temp
                /\ state'.sensor2Humid = state.sensor2Humid]_vars

\* a report of channel 1 alone (3, 3, 3 and 7%, 7%, 7%) has been processed
\* and channel 2 still has the fault and the readings of the cycles before
C16_Witness ==
    /\ state.sensor1Temp = MeanOf(Threes) /\ state.sensor1Humid = MeanOf(Sevens)
    /\ state.sensor2State = GENERAL_FAULT
    /\ state.sensor2Temp = MeanOf(Twos) /\ state.sensor2Humid = MeanOf(Nines)

\* the poll timer is armed
Rearmed == \E k \in DOMAIN timers : timers[k].kind = "poll"

\* C17: the processing step of a fetched report whose "Detected" line for
\* channel 1 has a temperature token that is no number ends with
\* sensor1State = GENERAL_FAULT, and the cycle is completed: no exception,
\* channel 2 published from its own line, the poll timer armed again.
C17_BadNumberIsFault ==
    [][\A c \in Slots :
          (WindowStep(c) /\ Fetched(c) /\ RawData(c) = Garbled \o <<"\n">> \o Dry(Two)) =>
             /\ state'.sensor1State = GENERAL_FAULT
             /\ ~uncaught'
             /\ state'.sensor2State = NO_FAULT
             /\ state'.sensor2Temp = MeanOf(Twos) /\ state'.sensor2Humid = MeanOf(Ones)
             /\ Rearmed']_vars

\* C18: AlertState changes only in a processing step that finds
\* deviceState = NO_FAULT, and every change is one the hysteresis allows on the
\* humidities that step publishes: raised only with a humidity over the
\* threshold, cleared only with both humidities under it.  No step of a
\* request callback, of the poll timer or of getServices changes it.
C18_AlertOnlyByRule ==
    [][state'.AlertState # state.AlertState =>
          /\ \E c \in Slots : WindowStep(c)
          /\ state.deviceState = NO_FAULT
          /\ LET limit == FromRatio(alertThreshold, 1)
                 h1 == state'.sensor1Humid
                 h2 == state'.sensor2Humid
             IN  IF state'.AlertState = LEAK_DETECTED
                 THEN Greater(h1, limit) \/ Greater(h2, limit)
                 ELSE Greater(limit, h1) /\ Greater(limit, h2)]_vars

\* the rule has raised the alert from a humidity of 9 on channel 1, and a
\* cycle whose request failed has since pushed the device fault and left the
\* alert as it was
C18_Witness ==
    /\ state.AlertState = LEAK_DETECTED
    /\ state.sensor1Humid = MeanOf(Nines)
    /\ hk.LeakDetected = LEAK_DETECTED
    /\ hk.StatusFault = GENERAL_FAULT

\* C19: accessory.state, which the getters return whenever HomeKit asks,
\* changes in no step but the processing step of a cycle; in particular the
\* step of a request callback leaves deviceState as it was.
C19_StateWrittenOnlyByProcessing ==
    [][state' # state => \E c \in Slots : WindowStep(c)]_vars

\* C20: when a processing step has run to its end, with the request answered
\* or failed, every characteristic value last handed to HomeKit is the value
\* of the field of accessory.state it shows.
C20_PushedEqualsState ==
    [][\A c \in Slots :
          (WindowStep(c) /\ ~uncaught') =>
             /\ hk'.LeakDetected = state'.AlertState
             /\ hk'.StatusFault = state'.deviceState
             /\ hk'.Temp1 = state'.sensor1Temp /\ hk'.Humid1 = state'.sensor1Humid
             /\ hk'.Temp1Fault = state'.sensor1State /\ hk'.Humid1Fault = state'.sensor1State
             /\ hk'.Temp2 = state'.sensor2Temp /\ hk'.Humid2 = state'.sensor2Humid
             /\ hk'.Temp2Fault = state'.sensor2State /\ hk'.Humid2Fault = state'.sensor2State]_vars

\* a cycle whose request failed has just ended, behind a cycle that published
\* humidities 9 and 1: the fault is pushed, the readings pushed before stand
C20_Witness ==
    /\ \A c \in Slots : ~InWindow(c)
    /\ \E k \in DOMAIN timers : timers[k].kind = "poll" /\ timers[k].rem = pollTimer
    /\ state.deviceState = GENERAL_FAULT /\ hk.StatusFault = GENERAL_FAULT
    /\ hk.Humid1 = MeanOf(Nines) /\ hk.Humid2 = MeanOf(Ones)

\* the Number x is at or above the whole number n
AtOrAbove(x, n) == x # NaN /\ ~Greater(FromRatio(n, 1), x)

\* C21: a step never takes AlertState from LEAK_DETECTED back to
\* LEAK_NOT_DETECTED while it leaves a channel in GENERAL_FAULT whose
\* humidity, as last published, is at or above the threshold.
C21_FaultedChannelHoldsAlert ==
    [][(/\ state.AlertState = LEAK_DETECTED
        /\ \/ /\ state'.sensor1State = GENERAL_FAULT
              /\ AtOrAbove(state'.sensor1Humid, alertThreshold)
           \/ /\ state'.sensor2State = GENERAL_FAULT
              /\ AtOrAbove(state'.sensor2Humid, alertThreshold)) =>
          state'.AlertState = LEAK_DETECTED]_vars

\* channel 2 has reported "Not Detected" behind a cycle that published 9 for
\* it; channel 1 is at 1 and the alert still stands
C21_Witness ==
    /\ state.AlertState = LEAK_DETECTED
    /\ state.sensor2State = GENERAL_FAULT /\ state.sensor2Humid = MeanOf(Nines)
    /\ state.sensor1State = NO_FAULT /\ state.sensor1Humid = MeanOf(Ones)

C24_NoCycleWithoutAddress ==
    IpAddress = Undefined => \A c \in Slots : cyc[c].req = "free" /\ ~InWindow(c)

\* the request of slot c has been answered with status 200
Answered200(c) == cyc[c].req \in {"open", "ended"}

\* C25: the processing step of a cycle whose request was answered with status
\* 200 inside the window leaves deviceState at NO_FAULT, whatever the body
\* was: truncated records, no record at all, a status other than "Detected".
C25_ParsingLeavesDeviceFault ==
    [][\A c \in Slots : (WindowStep(c) /\ Answered200(c)) => state'.deviceState = NO_FAULT]_vars

\* humidity h is strictly over the alert threshold
Over(h) == Greater(h, FromRatio(alertThreshold, 1))

\* C26: in every state, between cycles and at the end of each, a channel
\* humidity in the accessory state strictly over the threshold goes together
\* with AlertState = LEAK_DETECTED.
C26_OverThresholdShowsAlert ==
    (Over(state.sensor1Humid) \/ Over(state.sensor2Humid)) => state.AlertState = LEAK_DETECTED

\* this step is a callback of a request whose 3-second window closed before
LateCallback == late' < late

\* C27: a response or 'error' event of a request whose cycle has already had
\* its processing step leaves deviceState as it was.
C27_LateEventIgnored ==
    [][LateCallback => state'.deviceState = state.deviceState]_vars

\* C28: in the loop started once, a processing step that finds the request
\* answered 200 with its whole body, after an earlier cycle ended with
\* GENERAL_FAULT pushed to HomeKit, ends with deviceState = NO_FAULT and the
\* StatusFault characteristic cleared.
C28_FaultClearsOnAnswer ==
    [][\A c \in Slots :
          (WindowStep(c) /\ Fetched(c) /\ hk.StatusFault = GENERAL_FAULT /\ starts <= 1) =>
             (state'.deviceState = NO_FAULT /\ (~uncaught' => hk'.StatusFault = NO_FAULT))]_vars

\* the pending poll-interval timers
PollTimers == {k \in DOMAIN timers : timers[k].kind = "poll"}

\* C29: at most one poll-interval timer is pending, and it is the one
\* stateTimer holds, whatever the start calls and cycle completions so far.
C29_OnePollTimer ==
    /\ Cardinality(PollTimers) <= 1
    /\ \A k \in PollTimers : timers[k].id = stateTimer

\* both start calls are made and no cycle is in its window, with the long
\* interval: the timer of one pollState call was pending when the next call
\* came, and the timer now pending is the only one
C29_Witness ==
    /\ pollTimer = LongPollTimer
    /\ starts = MaxStarts
    /\ InFlight = {}
    /\ Cardinality(PollTimers) = 1
    /\ \E k \in PollTimers : timers[k].rem < pollTimer

\* the seconds left of the window of the cycle in slot c
WindowLeft(c) == (CHOOSE t \in {timers[k] : k \in DOMAIN timers} : t.kind = "window" /\ t.cyc = c).rem

\* C30: with the poll interval longer than the 3-second window, whatever the
\* number and the moments of the start calls, at most one cycle is in flight,
\* and a poll timer pending during a cycle's window is due only after that
\* window has closed, so the cycle's own pollState() clears it first.
C30_LongIntervalOneCycle ==
    pollTimer > FetchWindow =>
        /\ Cardinality(InFlight) <= 1
        /\ \A c \in InFlight : \A k \in PollTimers : timers[k].rem > WindowLeft(c)

\* a start call made inside the window of the running cycle has armed a poll
\* timer, every start call is made, and the cycle is still the only one
C30_Witness ==
    /\ pollTimer > FetchWindow
    /\ starts = MaxStarts
    /\ Cardinality(InFlight) = 1
    /\ PollTimers # {}

\* C31: when a processing step has pushed the values of a processed payload,
\* a read of any characteristic returns the value just pushed for it; so the
\* StatusFault read of each temperature and humidity service is the health
\* of that service's own channel.
C31_ReadEqualsPushed ==
    [][\A c \in Slots :
          (WindowStep(c) /\ state.deviceState = NO_FAULT /\ ~uncaught') =>
             Handlers(state') = hk']_vars

\* C32: the alert rule applied to the state a processing step has left, with
\* the same humidities and threshold, changes nothing; and the processing
\* step of a fetched report that holds no record of either channel leaves
\* AlertState as it was.
C32_AlertRuleIdempotent ==
    [][\A c \in Slots :
          (WindowStep(c) /\ state.deviceState = NO_FAULT /\ ~uncaught') =>
             /\ AlertRule(state', alertThreshold) = state'
             /\ (Fetched(c) /\ NoRecord(RawData(c), One) /\ NoRecord(RawData(c), Two))
                   => state'.AlertState = state.AlertState]_vars

\* the alert stands, raised by the rule in an earlier cycle, with one humidity
\* over and one under the threshold, and an empty report is fetched and due
C32_Witness ==
    /\ state.AlertState = LEAK_DETECTED
    /\ Over(state.sensor1Humid) /\ ~Over(state.sensor2Humid)
    /\ state.deviceState = NO_FAULT
    /\ \E c \in Slots : Fetched(c) /\ RawData(c) = <<>> /\ WindowLeft(c) = 0

\* the number a humidity token stands for: what is written before a trailing
\* "%", or the whole token when it ends otherwise
Percentage(tok) ==
    IF tok # <<>> /\ tok[Len(tok)] = "%" THEN ToNumber(SliceLast(tok)) ELSE ToNumber(tok)

\* tokens begin with one whole "Detected" record of channel 1, the only record
\* of that channel, and every marker "SHT" is followed by a channel index
LeadingRecord(tokens) ==
    /\ Len(tokens) >= 10
    /\ tokens[1] = SHT /\ tokens[2] = One /\ tokens[4] = Detected
    /\ Len(tokens) > 10 => tokens[11] = SHT
    /\ \A i \in DOMAIN tokens :
          tokens[i] = SHT => /\ At(tokens, i) \in {One, Two}
                             /\ i > 1 => At(tokens, i) = Two

\* C33: the humidity a processing step publishes for a "Detected" record of
\* channel 1 is the mean of the three numbers its humidity tokens stand for,
\* a token without "%" counting with all its digits.
C33_OnlyPercentStripped ==
    [][\A c \in Slots :
          (WindowStep(c) /\ Fetched(c) /\ state.deviceState = NO_FAULT /\ ~uncaught'
             /\ LeadingRecord(Tokenize(RawData(c)))) =>
             LET tokens == Tokenize(RawData(c))
             IN  state'.sensor1Humid =
                    Mean3(Percentage(tokens[8]), Percentage(tokens[9]), Percentage(tokens[10]))]_vars
====
